---- MODULE Spec2Model ----
(***************************************************************************)
(* Model of the revenue-forecast preprocessing pipeline                    *)
(* (src/src/data/preprocessor.py, src/scripts/run_preprocessing.py):       *)
(*   - DataPreprocessor: load/validate, period parsing, date coercion,     *)
(*     null-date filtering, group writing;                                 *)
(*   - RollingForecastSplitter: sort, threshold check, train /             *)
(*     initial_test / final_test slicing, artifact writing;                *)
(*   - main(): the script that chains both stages.                         *)
(* A DataFrame is a sequence of rows, a directory a function from file     *)
(* names to file contents, a period string a sequence of lexical tokens.   *)
(***************************************************************************)
EXTENDS Integers, Sequences, FiniteSets, TLC

VARIABLES
    pc,               \* position of the running entry point
    raw_exists,       \* whether the raw CSV file exists
    columns,          \* header of the raw CSV file (set of column names)
    raw_rows,         \* rows of the raw CSV file
    df,               \* DataPreprocessor.df
    processed_dir,    \* data/processed: file stem -> rows
    split_dir,        \* data/split_data: file stem -> rows
    csv_files,        \* files process_files still has to visit
    min_data_points,  \* argument of process_files
    sorted_df,        \* file stem -> df after sort_values, as last computed
    log,              \* records written through logger
    exit_code,        \* return value of main()
    period_col,       \* a 'period' column handed to apply(_parse_period)
    period_data,      \* the results apply has collected so far
    unwritable,       \* paths on which a write raises OSError
    unreadable,       \* files of data/processed on which read_csv raises
    run,              \* 1 in the first run of main(), 2 in a second run
    first_run,        \* how the first run ended and what it left on disk
    quicksort,        \* the row orders sort_values has produced, per input
    quota,            \* instance types whose service quota is sufficient
    job,              \* status of the AutoML job inside SageMaker
    polled,           \* the job_status values read by the loop of monitor_job
    job_response,     \* what monitor_job returned to train_model
    calls,            \* the steps of train_model that have called sm_client
    result            \* how train_model ended

vars == <<pc, raw_exists, columns, raw_rows, df, processed_dir, split_dir, csv_files,
          min_data_points, sorted_df, log, exit_code, period_col, period_data,
          unwritable, unreadable, run, first_run, quicksort,
          quota, job, polled, job_response, calls, result>>

\* the environment and history of the file stages, the state of the trainer
ioVars == <<unwritable, unreadable, run, first_run, quicksort>>
trainVars == <<quota, job, polled, job_response, calls, result>>
\* the state of the preprocessing stages, except the position
dataVars == <<raw_exists, columns, raw_rows, df, processed_dir, split_dir, csv_files,
              min_data_points, sorted_df, log, exit_code, period_col, period_data>>

(***************************************************************************)
(* Bounds of the model.                                                    *)
(***************************************************************************)
MaxRows == 9          \* longest series file given to the splitter
MaxMinPoints == 9     \* largest min_data_points passed to process_files
MaxRaw == 2           \* freely chosen rows of the raw CSV file
MaxPolls == 3         \* status polls of monitor_job that are kept on record

(***************************************************************************)
(* Values.                                                                 *)
(***************************************************************************)
None == "None"
\* pandas NaT: what to_datetime(errors='coerce') yields for a value that is
\* no date.  Dates are positive ordinals.
NaT == 0

\* The text of a date as it stands in a CSV file or in a period payload:
\* day k of January 2024, in ISO form.
DateString(k) == "2024-01-" \o (IF k < 10 THEN "0" ELSE "") \o ToString(k)
Days == 1..31

\* pd.to_datetime(text, errors='coerce') of one CSV cell
ParseDate(text) ==
    IF \E k \in Days : DateString(k) = text
    THEN CHOOSE k \in Days : DateString(k) = text
    ELSE NaT
\* the cell to_csv writes for a datetime value (NaT is written empty)
FormatDate(d) == IF d = NaT THEN "" ELSE DateString(d)

Range(s) == {s[i] : i \in 1..Len(s)}

Max2(a, b) == IF a >= b THEN a ELSE b

(***************************************************************************)
(* pandas positional slicing with a negative bound.                        *)
(***************************************************************************)
\* s.iloc[:-k] : everything except the last k rows
ILocDropLast(s, k) == SubSeq(s, 1, Max2(Len(s) - k, 0))
\* s.iloc[-k:] : the last k rows (all rows when there are fewer)
ILocTakeLast(s, k) == SubSeq(s, Max2(Len(s) - k, 0) + 1, Len(s))

(***************************************************************************)
(* df.sort_values(by="start_date").reset_index(drop=True)                  *)
(* Default kind is quicksort, which is not stable: rows with equal dates   *)
(* may come out in any order.  na_position is 'last': NaT rows follow the  *)
(* dated rows, in their original order.                                    *)
(***************************************************************************)
MinDate(s, I) == CHOOSE d \in {s[i].start_date : i \in I} :
                    \A j \in I : d <= s[j].start_date

RECURSIVE SortedOrders(_, _)
SortedOrders(s, I) ==
    IF I = {} THEN {<<>>}
    ELSE LET m == MinDate(s, I)
         IN UNION {{<<s[i]>> \o t : t \in SortedOrders(s, I \ {i})} :
                      i \in {j \in I : s[j].start_date = m}}

SortValues(s) ==
    LET dated == {i \in 1..Len(s) : s[i].start_date # NaT}
        nat   == SelectSeq(s, LAMBDA r : r.start_date = NaT)
    IN {t \o nat : t \in SortedOrders(s, dated)}

(***************************************************************************)
(* The three slices of _process_single_file.                               *)
(***************************************************************************)
TrainOf_Drop7(d) == ILocDropLast(d, 7)
TrainOf(d) == ILocDropLast(d, 8)
InitialTestOf(d) == ILocTakeLast(d, 8)
FinalTestOf_TakeLast4(initial_test_df) == ILocTakeLast(initial_test_df, 4)
FinalTestOf_Drop3(initial_test_df) == ILocDropLast(initial_test_df, 3)
FinalTestOf(initial_test_df) == ILocDropLast(initial_test_df, 4)

\* the guard "if len(df) < min_data_points"
NotEnoughDataPoints_OffByOne(d, m) == Len(d) < m - 1
NotEnoughDataPoints(d, m) == Len(d) < m

TrainName(base_name) == base_name \o "_train"
InitialTestName(base_name) == base_name \o "_initial_test"
FinalTestName(base_name) == base_name \o "_final_test"

\* to_csv(filename): create or overwrite the whole file; a frame without rows
\* is written too (header only)
ToCsv_SkipEmpty(dir, name, rows) ==
    IF rows = <<>> THEN dir
    ELSE [n \in DOMAIN dir \cup {name} |-> IF n = name THEN rows ELSE dir[n]]
ToCsv_Append(dir, name, rows) ==
    [n \in DOMAIN dir \cup {name} |->
        IF n # name THEN dir[n]
        ELSE IF name \in DOMAIN dir THEN dir[name] \o rows ELSE rows]
ToCsv(dir, name, rows) ==
    [n \in DOMAIN dir \cup {name} |-> IF n = name THEN rows ELSE dir[n]]

EmptyDir == [n \in {} |-> <<>>]
\* a DataFrame: its columns and its rows (each a function on the columns)
NoFrame == [cols |-> {}, rows |-> <<>>]

\* every path can be read and written
NoIoErrors == unwritable = {} /\ unreadable = {}
\* main() has not run before
FirstRun == run = 1 /\ first_run = None /\ quicksort = EmptyDir
\* monitor_job has returned nothing
NoResponse == [AutoMLJobStatus |-> None]
\* no SageMakerTrainer is in use
NoTrainer ==
    /\ quota = {}
    /\ job = None
    /\ polled = <<>>
    /\ job_response = NoResponse
    /\ calls = {}
    /\ result = None

\* pd.read_csv(file_path) followed by to_datetime on the start_date column
ReadSeries(rows) ==
    [i \in 1..Len(rows) |-> [rows[i] EXCEPT !.start_date = ParseDate(@)]]
\* the rows to_csv stores for a frame whose start_date column is datetime
CsvRows(frame) ==
    [i \in 1..Len(frame) |-> [frame[i] EXCEPT !.start_date = FormatDate(@)]]

(***************************************************************************)
(* RollingForecastSplitter.process_files / _process_single_file            *)
(***************************************************************************)
\* process_files up to the loop: glob the input directory.
ProcessFilesGlob ==
    /\ pc = "process_files"
    /\ IF DOMAIN processed_dir = {}
       THEN /\ log' = Append(log, [level |-> "warning", msg |-> "no_csv_files",
                                   file |-> None, n |-> 0])
            /\ pc' = "splits_done"
            /\ UNCHANGED csv_files
       ELSE /\ csv_files' = DOMAIN processed_dir
            /\ pc' = "split_loop"
            /\ UNCHANGED log
    /\ UNCHANGED <<raw_exists, columns, raw_rows, df, processed_dir, split_dir,
                   min_data_points, sorted_df, exit_code, period_col, period_data,
                   ioVars, trainVars>>

\* the paths of the two output directories
ProcessedPath(name) == <<"data/processed", name>>
SplitPath(name) == <<"data/split_data", name>>

\* number of to_csv calls, made in the order of paths, that return before
\* one raises
RECURSIVE Succeed(_, _)
Succeed(paths, bad) ==
    IF paths = <<>> \/ Head(paths) \in bad THEN 0
    ELSE 1 + Succeed(Tail(paths), bad)

\* the effect of a list of to_csv calls that all return
RECURSIVE WriteAll_Append(_, _)
WriteAll_Append(dir, writes) ==
    IF writes = <<>> THEN dir
    ELSE WriteAll_Append(ToCsv_Append(dir, Head(writes).name, Head(writes).rows),
                         Tail(writes))
RECURSIVE WriteAll(_, _)
WriteAll(dir, writes) ==
    IF writes = <<>> THEN dir
    ELSE WriteAll(ToCsv(dir, Head(writes).name, Head(writes).rows), Tail(writes))

\* The order sort_values gives the rows of a frame.  The order of rows with
\* equal dates is not specified, but the sort is a deterministic algorithm:
\* the same frame comes out in the same order every time.
SortOutcomes(frame) ==
    IF frame \in DOMAIN quicksort THEN {quicksort[frame]} ELSE SortValues(frame)
Remember(memo, frame, d) ==
    [x \in DOMAIN memo \cup {frame} |-> IF x = frame THEN d ELSE memo[x]]

\* the three to_csv calls of _process_single_file, in order
SplitWrites(base_name, d) ==
    << [name |-> TrainName(base_name), rows |-> CsvRows(TrainOf(d))],
       [name |-> InitialTestName(base_name), rows |-> CsvRows(InitialTestOf(d))],
       [name |-> FinalTestName(base_name),
        rows |-> CsvRows(FinalTestOf(InitialTestOf(d)))] >>
SplitPaths(base_name) ==
    << SplitPath(TrainName(base_name)), SplitPath(InitialTestName(base_name)),
       SplitPath(FinalTestName(base_name)) >>

\* "Save results": the writes up to the first that raises; the exception is
\* caught and logged by _process_single_file
SaveSplits(file_path, d, k) ==
    /\ split_dir' = WriteAll(split_dir, SubSeq(SplitWrites(file_path, d), 1, k))
    /\ log' = Append(log, IF k = 3
                          THEN [level |-> "info", msg |-> "split_completed",
                                file |-> file_path, n |-> Len(d)]
                          ELSE [level |-> "error", msg |-> "error_processing",
                                file |-> file_path, n |-> k])

\* One iteration of the loop: _process_single_file(file_path, min_data_points).
ProcessSingleFile(file_path) ==
    /\ pc = "split_loop"
    /\ file_path \in csv_files
    /\ IF file_path \in unreadable
       THEN /\ log' = Append(log, [level |-> "error", msg |-> "error_processing",
                                   file |-> file_path, n |-> 0])
            /\ UNCHANGED <<split_dir, sorted_df, quicksort>>
       ELSE \E d \in SortOutcomes(ReadSeries(processed_dir[file_path])) :
          /\ sorted_df' = [n \in DOMAIN sorted_df \cup {file_path} |->
                              IF n = file_path THEN d ELSE sorted_df[n]]
          /\ quicksort' = Remember(quicksort,
                                   ReadSeries(processed_dir[file_path]), d)
          /\ IF NotEnoughDataPoints(d, min_data_points)
             THEN /\ log' = Append(log, [level |-> "warning",
                                         msg |-> "not_enough_data_points",
                                         file |-> file_path, n |-> Len(d)])
                  /\ UNCHANGED split_dir
             ELSE SaveSplits(file_path, d,
                             Succeed(SplitPaths(file_path), unwritable))
    /\ csv_files' = csv_files \ {file_path}
    /\ UNCHANGED <<pc, raw_exists, columns, raw_rows, df, processed_dir, min_data_points,
                   exit_code, period_col, period_data,
                   unwritable, unreadable, run, first_run, trainVars>>

\* The loop has visited every file: process_files returns.
ProcessFilesReturn ==
    /\ pc = "split_loop"
    /\ csv_files = {}
    /\ pc' = "splits_done"
    /\ UNCHANGED <<raw_exists, columns, raw_rows, df, processed_dir, split_dir, csv_files,
                   min_data_points, sorted_df, log, exit_code, period_col, period_data,
                   ioVars, trainVars>>

(***************************************************************************)
(* Direct use of the splitter: a directory of series files and a           *)
(* min_data_points argument.                                               *)
(***************************************************************************)
Patterns == {"asc", "desc", "ties", "nat"}

\* start_date of row i of a series file of the given pattern
PatternDate(p, i) ==
    CASE p = "asc"  -> DateString(i)
      [] p = "desc" -> DateString(31 - i)
      [] p = "ties" -> DateString((i + 1) \div 2)
      [] p = "nat"  -> IF i = 2 THEN "soon" ELSE DateString(i)

\* A stored series: revenue numbers the rows in file order.
SeriesFile(partner, p, n) ==
    [i \in 1..n |-> [partner_id |-> partner, report_type |-> "revenue",
                     revenue |-> i, period_type |-> "M",
                     start_date |-> PatternDate(p, i)]]

InitSplit ==
    /\ pc = "process_files"
    /\ raw_exists = FALSE
    /\ columns = {}
    /\ raw_rows = <<>>
    /\ df = NoFrame
    /\ \E names \in {{}, {"P1_M"}, {"P1_M", "P2_M"}} :
       \E p \in Patterns, n1 \in 0..MaxRows, n2 \in {7, 8} :
          processed_dir = [f \in names |->
                              IF f = "P1_M" THEN SeriesFile("P1", p, n1)
                              ELSE SeriesFile("P2", "asc", n2)]
    /\ split_dir = EmptyDir
    /\ csv_files = {}
    /\ min_data_points \in 0..MaxMinPoints
    /\ sorted_df = EmptyDir
    /\ log = <<>>
    /\ exit_code = None
    /\ period_col = <<>>
    /\ period_data = <<>>
    /\ NoIoErrors
    /\ FirstRun
    /\ NoTrainer

NextSplit ==
    \/ ProcessFilesGlob
    \/ \E f \in csv_files : ProcessSingleFile(f)
    \/ ProcessFilesReturn

SpecSplit == InitSplit /\ [][NextSplit]_vars

(***************************************************************************)
(* Period strings.  A string is a sequence of lexical tokens: each quote   *)
(* and each JSON punctuation character is a token of its own, a maximal    *)
(* run of other characters is one token (a word).  Whitespace between      *)
(* tokens is left out.                                                     *)
(***************************************************************************)
SQ == "'"
DQ == "\""

\* period_str.replace("'", "\"")
ReplaceQuotes_Identity(s) == s
ReplaceQuotes(s) == [i \in 1..Len(s) |-> IF s[i] = SQ THEN DQ ELSE s[i]]

(***************************************************************************)
(* Python values produced by json.loads.                                   *)
(***************************************************************************)
PyStr(toks)   == [t |-> "str",  s |-> toks,  items |-> <<>>]
PyInt(w)      == [t |-> "int",  s |-> <<w>>, items |-> <<>>]
PyBool(w)     == [t |-> "bool", s |-> <<w>>, items |-> <<>>]
PyNone        == [t |-> "None", s |-> <<>>,  items |-> <<>>]
PyDict(pairs) == [t |-> "dict", s |-> <<>>,  items |-> pairs]
PyList(elems) == [t |-> "list", s |-> <<>>,  items |-> elems]

\* words that json's scanner accepts as a value outside a string
NumberWords == {"5"}
BoolWords == {"true", "false"}

Fail == [ok |-> FALSE, val |-> PyNone, end |-> 0]
Ok(v, e) == [ok |-> TRUE, val |-> v, end |-> e]

\* A string literal that opens at s[i] = DQ runs to the next DQ.
ClosingQuote(s, i, closing) ==
    IF closing = {} THEN Fail
    ELSE Ok(PyStr(SubSeq(s, i + 1,
                         (CHOOSE c \in closing : \A d \in closing : c <= d) - 1)),
            (CHOOSE c \in closing : \A d \in closing : c <= d) + 1)
ScanString(s, i) == ClosingQuote(s, i, {j \in (i + 1)..Len(s) : s[j] = DQ})

RECURSIVE ScanOnce(_, _)
RECURSIVE ParseMembers(_, _, _)
RECURSIVE ParseElements(_, _, _)
RECURSIVE MemberValue(_, _, _, _)
RECURSIVE MemberKey(_, _, _)
RECURSIVE Element(_, _, _)

\* json.scanner.scan_once: the value that starts at s[i]
ScanOnce(s, i) ==
    IF i > Len(s) THEN Fail
    ELSE CASE s[i] = DQ  -> ScanString(s, i)
           [] s[i] = "{" -> IF i + 1 <= Len(s) /\ s[i + 1] = "}"
                            THEN Ok(PyDict(<<>>), i + 2)
                            ELSE ParseMembers(s, i + 1, <<>>)
           [] s[i] = "[" -> IF i + 1 <= Len(s) /\ s[i + 1] = "]"
                            THEN Ok(PyList(<<>>), i + 2)
                            ELSE ParseElements(s, i + 1, <<>>)
           [] s[i] = "null" -> Ok(PyNone, i + 1)
           [] s[i] \in BoolWords -> Ok(PyBool(s[i]), i + 1)
           [] s[i] \in NumberWords -> Ok(PyInt(s[i]), i + 1)
           [] OTHER -> Fail

\* json.decoder.JSONObject: "key": value pairs up to the closing brace
\* after the value v of a pair: a comma and the next pair, or the brace
MemberValue(s, acc, key, v) ==
    IF ~v.ok \/ v.end > Len(s) THEN Fail
    ELSE CASE s[v.end] = "," ->
                 ParseMembers(s, v.end + 1, Append(acc, [k |-> key.val.s, v |-> v.val]))
           [] s[v.end] = "}" ->
                 Ok(PyDict(Append(acc, [k |-> key.val.s, v |-> v.val])), v.end + 1)
           [] OTHER -> Fail
\* after the key of a pair: a colon and the value
MemberKey(s, acc, key) ==
    IF ~key.ok \/ key.end > Len(s) \/ s[key.end] # ":" THEN Fail
    ELSE MemberValue(s, acc, key, ScanOnce(s, key.end + 1))
ParseMembers(s, i, acc) ==
    IF i > Len(s) \/ s[i] # DQ THEN Fail
    ELSE MemberKey(s, acc, ScanString(s, i))

\* json.decoder.JSONArray: values up to the closing bracket
Element(s, acc, v) ==
    IF ~v.ok \/ v.end > Len(s) THEN Fail
    ELSE CASE s[v.end] = "," -> ParseElements(s, v.end + 1, Append(acc, v.val))
           [] s[v.end] = "]" -> Ok(PyList(Append(acc, v.val)), v.end + 1)
           [] OTHER -> Fail
ParseElements(s, i, acc) == Element(s, acc, ScanOnce(s, i))

\* json.loads: one value, and nothing after it
Decoded(s, r) ==
    IF r.ok /\ r.end = Len(s) + 1
    THEN [exc |-> None, val |-> r.val]
    ELSE [exc |-> "JSONDecodeError", val |-> PyNone]
JsonLoads(s) == Decoded(s, ScanOnce(s, 1))

\* obj.get(key, default): only a dict has get; a repeated key keeps its last
\* value
DictGet(obj, key, default) ==
    IF obj.t # "dict" THEN [exc |-> "AttributeError", val |-> PyNone]
    ELSE LET hits == {i \in 1..Len(obj.items) : obj.items[i].k = key}
         IN IF hits = {} THEN [exc |-> None, val |-> default]
            ELSE [exc |-> None,
                  val |-> obj.items[CHOOSE i \in hits : \A j \in hits : j <= i].v]

\* entry.get('S', None), entry being the outcome of the first get
GetS(entry) ==
    IF entry.exc # None THEN entry ELSE DictGet(entry.val, <<"S">>, PyNone)
\* period_dict.get(outer, {}).get('S', None)
TaggedPayload(period_dict, outer) ==
    GetS(DictGet(period_dict, outer, PyDict(<<>>)))

\* A cell of the period column: a str, or the float NaN of an empty cell.
StrCell(toks) == [t |-> "str", s |-> toks]
NaNCell == [t |-> "float", s |-> <<>>]

\* The body of the try block of _parse_period, statement by statement: each
\* either yields the exception raised so far or goes on.
Raised(exc) == [exc |-> exc, period_type |-> PyNone, start_date |-> PyNone]
\* return period_type, start_date
ReturnPair(ty, sd) ==
    IF sd.exc # None THEN Raised(sd.exc)
    ELSE [exc |-> None, period_type |-> ty.val, start_date |-> sd.val]
\* start_date = period_dict.get('start_date', {}).get('S', None)
GetStartDate(period_dict, ty) ==
    IF ty.exc # None THEN Raised(ty.exc)
    ELSE ReturnPair(ty, TaggedPayload(period_dict, <<"start_date">>))
\* period_type = period_dict.get('type', {}).get('S', None)
GetType(loaded) ==
    IF loaded.exc # None THEN Raised(loaded.exc)
    ELSE GetStartDate(loaded.val, TaggedPayload(loaded.val, <<"type">>))
\* period_dict = json.loads(period_str.replace("'", "\""))
ParsePeriodTry(cell) ==
    IF cell.t # "str" THEN Raised("AttributeError")
    ELSE GetType(JsonLoads(ReplaceQuotes(cell.s)))

\* except (json.JSONDecodeError, AttributeError)
CaughtExceptions_DecodeOnly == {"JSONDecodeError"}
CaughtExceptions == {"JSONDecodeError", "AttributeError"}

\* _parse_period: the returned pair, whether the warning was logged, and the
\* exception that leaves the function (None when it returns).
Outcome(r) ==
    IF r.exc = None
    THEN [raised |-> None, warned |-> FALSE,
          period_type |-> r.period_type, start_date |-> r.start_date]
    ELSE IF r.exc \in CaughtExceptions
         THEN [raised |-> None, warned |-> TRUE,
               period_type |-> PyNone, start_date |-> PyNone]
         ELSE [raised |-> r.exc, warned |-> FALSE,
               period_type |-> PyNone, start_date |-> PyNone]
ParsePeriod(cell) == Outcome(ParsePeriodTry(cell))

(***************************************************************************)
(* Period strings handed to _parse_period.                                 *)
(***************************************************************************)
\* a string literal in quote style q
Quoted(q, toks) == <<q>> \o toks \o <<q>>
\* {'<tag>': <payload>}
Wrapper(q, tag, payload) ==
    <<"{">> \o Quoted(q, <<tag>>) \o <<":">> \o Quoted(q, payload) \o <<"}">>
Member(q, key, entry) == Quoted(q, <<key>>) \o <<":">> \o entry
\* {'type': {'<tag1>': T}, 'start_date': {'<tag2>': D}}
WellFormedPeriod(q, tag1, T, tag2, D) ==
    <<"{">> \o Member(q, "type", Wrapper(q, tag1, T)) \o <<",">>
            \o Member(q, "start_date", Wrapper(q, tag2, D)) \o <<"}">>

Quotes == {SQ, DQ}
Tags == {"S", "N"}
TypePayloads == {<<"M">>, <<>>, <<"O", SQ, "B">>, <<"a", DQ, "b">>}
DatePayloads == {<<DateString(1)>>, <<"soon">>, <<"1", SQ, "24">>}

\* entries that are a wrapper map
WrapperEntries(q, payloads) ==
    {Wrapper(q, tag, P) : tag \in Tags, P \in payloads}
\* entries that are a map, but no single-key wrapper with a payload under 'S'
OtherMapEntries(q) ==
    { <<"{", "}">>,
      <<"{">> \o Quoted(q, <<"S">>) \o <<":">> \o Quoted(q, <<"M">>) \o <<",">>
              \o Quoted(q, <<"N">>) \o <<":">> \o Quoted(q, <<"x">>) \o <<"}">>,
      <<"{">> \o Quoted(q, <<"S">>) \o <<":", "null", "}">> }
\* entries that are no map at all
NonMapEntries(q) ==
    { Quoted(q, <<"M">>), <<"null">>, <<"5">>, <<"true">>,
      <<"[">> \o Quoted(q, <<"S">>) \o <<",">> \o Quoted(q, <<"M">>) \o <<"]">> }

TypeEntries(q) == WrapperEntries(q, TypePayloads) \cup OtherMapEntries(q)
                     \cup NonMapEntries(q)
DateEntries(q) == WrapperEntries(q, DatePayloads) \cup OtherMapEntries(q)
                     \cup NonMapEntries(q)

\* period objects with both keys (either order), with one key only, and
\* with an extra key, their entries drawn from E1 (type) and E2 (start_date)
BothKeys(q, E1, E2) ==
    UNION {{ <<"{">> \o Member(q, "type", e1) \o <<",">>
                     \o Member(q, "start_date", e2) \o <<"}">>,
             <<"{">> \o Member(q, "start_date", e2) \o <<",">>
                     \o Member(q, "type", e1) \o <<"}">> }
           : e1 \in E1, e2 \in E2}
OnlyType(q, E1) == {<<"{">> \o Member(q, "type", e1) \o <<"}">> : e1 \in E1}
OnlyStartDate(q, E2) ==
    {<<"{">> \o Member(q, "start_date", e2) \o <<"}">> : e2 \in E2}
ExtraKey(q, E1) ==
    {<<"{">> \o Member(q, "type", e1) \o <<",">>
             \o Member(q, "report", Quoted(q, <<"rev">>)) \o <<",">>
             \o Member(q, "start_date", Wrapper(q, "S", <<DateString(2)>>))
             \o <<"}">> : e1 \in E1}

PeriodObjects(q) ==
    BothKeys(q, TypeEntries(q), DateEntries(q))
       \cup OnlyType(q, TypeEntries(q))
       \cup OnlyStartDate(q, DateEntries(q))
       \cup ExtraKey(q, TypeEntries(q))
       \cup {<<"{", "}">>}

\* ways a string is damaged: cut short, a quote lost, a trailing comma,
\* wrapped in a list
Damaged(s) ==
    { SubSeq(s, 1, Len(s) - 1),
      SubSeq(s, 1, 1) \o SubSeq(s, 3, Len(s)),
      SubSeq(s, 1, Len(s) - 1) \o <<",", "}">>,
      <<"[">> \o s \o <<"]">> }

\* strings that are no JSON value at all, or a JSON value that is no map
OtherStrings ==
    { <<"not json">>, <<>>, <<"5">>, <<"null">>, <<"[", "]">>,
      <<DQ, "M", DQ>>, <<SQ, "M", SQ>>, <<"{">>, <<"}", "{">> }

\* well-formed strings of every tag, payload and quote style
WellFormedPeriods ==
    {WellFormedPeriod(q, t1, T, t2, D) :
        q \in Quotes, t1 \in Tags, T \in TypePayloads, t2 \in Tags,
        D \in DatePayloads}

PeriodStrings ==
    UNION {PeriodObjects(q) : q \in Quotes}
       \cup UNION {Damaged(s) : s \in WellFormedPeriods}
       \cup OtherStrings

PeriodCells == {StrCell(s) : s \in PeriodStrings} \cup {NaNCell}

\* a row whose period parses, placed after the row under test
GoodCell == StrCell(WellFormedPeriod(SQ, "S", <<"M">>, "S", <<DateString(1)>>))

(***************************************************************************)
(* self.df['period'].apply(self._parse_period): one call per cell, in row  *)
(* order; an exception that leaves _parse_period ends the apply.           *)
(***************************************************************************)
ApplyParsePeriod ==
    /\ pc = "apply"
    /\ Len(period_data) < Len(period_col)
    /\ LET r == ParsePeriod(period_col[Len(period_data) + 1])
       IN IF r.raised # None
          THEN /\ pc' = "raised"
               /\ UNCHANGED <<period_data, log>>
          ELSE /\ period_data' = Append(period_data, r)
               /\ pc' = IF Len(period_data) + 1 = Len(period_col)
                        THEN "applied" ELSE "apply"
               /\ log' = IF r.warned
                         THEN Append(log, [level |-> "warning",
                                           msg |-> "error_parsing_period",
                                           file |-> None,
                                           n |-> Len(period_data) + 1])
                         ELSE log
    /\ UNCHANGED <<raw_exists, columns, raw_rows, df, processed_dir, split_dir, csv_files,
                   min_data_points, sorted_df, exit_code, period_col,
                   ioVars, trainVars>>

InitParse ==
    /\ pc = "apply"
    /\ raw_exists = FALSE
    /\ columns = {}
    /\ raw_rows = <<>>
    /\ df = NoFrame
    /\ processed_dir = EmptyDir
    /\ split_dir = EmptyDir
    /\ csv_files = {}
    /\ min_data_points = 8
    /\ sorted_df = EmptyDir
    /\ log = <<>>
    /\ exit_code = None
    /\ \E c \in PeriodCells : period_col = <<c, GoodCell>>
    /\ period_data = <<>>
    /\ NoIoErrors
    /\ FirstRun
    /\ NoTrainer

NextParse == ApplyParsePeriod

SpecParse == InitParse /\ [][NextParse]_vars

(***************************************************************************)
(* DataPreprocessor                                                        *)
(***************************************************************************)
LogRec(level, msg, n) == [level |-> level, msg |-> msg, file |-> None, n |-> n]

\* required_columns of _load_and_validate_data
RequiredColumns_NoReportType == {"partner_id", "period", "value"}
RequiredColumns == {"partner_id", "period", "report_type", "value"}

\* df[cols]: the frame restricted to the listed columns
SelectColumns_AllColumns(rows, cols) == rows
SelectColumns(rows, cols) ==
    [i \in 1..Len(rows) |-> [c \in cols |-> rows[i][c]]]

\* pd.to_datetime(value, errors='coerce') of one parsed start_date: the
\* text of a date becomes that date, None and any other text become NaT.
ToDatetime(v) ==
    IF v.t = "str" /\ Len(v.s) = 1 THEN ParseDate(v.s[1]) ELSE NaT

\* One row of _process_data before the null-date filter: value renamed to
\* revenue, period replaced by period_type and start_date.
NormalizeRow(row, r) ==
    [c \in (DOMAIN row \ {"value", "period"})
              \cup {"revenue", "period_type", "start_date"} |->
        CASE c = "revenue"     -> row["value"]
          [] c = "period_type" -> r.period_type
          [] c = "start_date"  -> ToDatetime(r.start_date)
          [] OTHER             -> row[c]]

\* dropna(subset=['start_date']): the rows that stay
KeepRow_AnyNull(row) == row["start_date"] # NaT /\ row["period_type"] # PyNone
KeepRow(row) == row["start_date"] # NaT

\* DataPreprocessor.__init__, first half: _load_and_validate_data.  A
\* missing required column raises ValueError, which is logged, re-raised
\* and leaves __init__ and preprocess_data.
LoadAndValidateData ==
    /\ pc = "load"
    /\ IF \A col \in RequiredColumns : col \in columns
       THEN /\ df' = [cols |-> RequiredColumns,
                      rows |-> SelectColumns(raw_rows, RequiredColumns)]
            /\ log' = Append(log, LogRec("info", "loaded_rows", Len(raw_rows)))
            /\ pc' = "process_data"
       ELSE /\ log' = Append(log, LogRec("error", "error_loading_data", 0))
            /\ pc' = "main_except"
            /\ UNCHANGED df
    /\ UNCHANGED <<raw_exists, columns, raw_rows, processed_dir, split_dir,
                   csv_files, min_data_points, sorted_df, exit_code,
                   period_col, period_data,
                   ioVars, trainVars>>

\* the warnings _parse_period logs over the rows
ParseWarnings(results) ==
    SelectSeq([i \in 1..Len(results) |->
                  IF results[i].warned
                  THEN LogRec("warning", "error_parsing_period", i)
                  ELSE LogRec("none", "none", i)],
              LAMBDA l : l.level = "warning")
\* the rows with period_type and start_date attached and the dates coerced
Normalized(rows, results) ==
    [i \in 1..Len(rows) |-> NormalizeRow(rows[i], results[i])]
\* the warning of the null-date filter, logged when it removes a row
RemovalWarning(invalid_dates) ==
    IF invalid_dates > 0
    THEN <<LogRec("warning", "removing_rows_invalid_dates", invalid_dates)>>
    ELSE <<>>

\* _process_data once every period is parsed
ProcessParsed(results) ==
    IF Len(results) = 0 \/ \E i \in 1..Len(results) : results[i].raised # None
    THEN /\ pc' = "main_except"
         /\ log' = log \o ParseWarnings(results)
         /\ UNCHANGED df
    ELSE /\ df' = [cols |-> (df.cols \ {"value", "period"})
                               \cup {"revenue", "period_type", "start_date"},
                   rows |-> SelectSeq(Normalized(df.rows, results), KeepRow)]
         /\ log' = log \o ParseWarnings(results)
                      \o RemovalWarning(Len(df.rows) - Len(df'.rows))
                      \o <<LogRec("info", "processed_data_shape", Len(df'.rows))>>
         /\ pc' = "split_and_save"

\* DataPreprocessor.__init__, second half: _process_data.  An exception that
\* leaves _parse_period, and the two-column assignment of a frame without
\* rows (ValueError: columns must be same length as key), leave __init__.
ProcessData ==
    /\ pc = "process_data"
    /\ ProcessParsed([i \in 1..Len(df.rows) |-> ParsePeriod(df.rows[i]["period"])])
    /\ UNCHANGED <<raw_exists, columns, raw_rows, processed_dir, split_dir,
                   csv_files, min_data_points, sorted_df, exit_code,
                   period_col, period_data,
                   ioVars, trainVars>>

\* the text of a str value
RECURSIVE JoinTokens(_)
JoinTokens(toks) ==
    IF toks = <<>> THEN "" ELSE Head(toks) \o JoinTokens(Tail(toks))

\* f"{partner_id}_{period_type}.csv", without the extension
GroupFileName(partner_id, period_type) ==
    partner_id \o "_" \o JoinTokens(period_type.s)

\* Order of Python strings, for the strings of the model.
StringOrder == <<"", "B_M", "M", "P1", "P1_B", "P2", "Q">>
StringRank(str) ==
    IF \E i \in 1..Len(StringOrder) : StringOrder[i] = str
    THEN CHOOSE i \in 1..Len(StringOrder) : StringOrder[i] = str
    ELSE 0
KeyBefore(a, b) ==
    \/ StringRank(a[1]) < StringRank(b[1])
    \/ /\ StringRank(a[1]) = StringRank(b[1])
       /\ StringRank(JoinTokens(a[2].s)) <= StringRank(JoinTokens(b[2].s))

\* groupby(["partner_id", "period_type"]): the keys in sorted order; a row
\* whose period_type is None belongs to no group (dropna).
GroupKeys(rows) ==
    {<<rows[i]["partner_id"], rows[i]["period_type"]>> :
        i \in {j \in 1..Len(rows) : rows[j]["period_type"] # PyNone}}
RECURSIVE SortedKeys(_)
SortedKeys(keys) ==
    IF keys = {} THEN <<>>
    ELSE LET first == CHOOSE k \in keys : \A o \in keys : KeyBefore(k, o)
         IN <<first>> \o SortedKeys(keys \ {first})
GroupRows(rows, key) ==
    SelectSeq(rows, LAMBDA r : r["partner_id"] = key[1] /\ r["period_type"] = key[2])

\* group.to_csv(filename, index=False): period_type as text, start_date as
\* ISO date
GroupCsvRows(rows) ==
    [i \in 1..Len(rows) |->
        [c \in DOMAIN rows[i] |->
            CASE c = "period_type" -> JoinTokens(rows[i][c].s)
              [] c = "start_date"  -> FormatDate(rows[i][c])
              [] OTHER             -> rows[i][c]]]

RECURSIVE WriteGroups(_, _, _)
WriteGroups(dir, rows, keys) ==
    IF keys = <<>> THEN dir
    ELSE WriteGroups(ToCsv(dir, GroupFileName(Head(keys)[1], Head(keys)[2]),
                           GroupCsvRows(GroupRows(rows, Head(keys)))),
                     rows, Tail(keys))

\* the files the loop of split_and_save writes, in order
GroupPaths(keys) ==
    [i \in 1..Len(keys) |-> ProcessedPath(GroupFileName(keys[i][1], keys[i][2]))]

\* the loop of split_and_save over the groups: k to_csv calls return; an
\* exception raised by a further call leaves split_and_save
SaveGroups(keys, k) ==
    /\ processed_dir' = WriteGroups(processed_dir, df.rows, SubSeq(keys, 1, k))
    /\ IF k = Len(keys)
       THEN /\ log' = Append(log, LogRec("info", "split_data_into_files", Len(keys)))
            /\ pc' = "create_rolling_splits"
       ELSE /\ UNCHANGED log
            /\ pc' = "main_except"
GroupByKeys == SortedKeys(GroupKeys(df.rows))

\* DataPreprocessor.split_and_save
SplitAndSave ==
    /\ pc = "split_and_save"
    /\ SaveGroups(GroupByKeys, Succeed(GroupPaths(GroupByKeys), unwritable))
    /\ UNCHANGED <<raw_exists, columns, raw_rows, df, split_dir, csv_files,
                   min_data_points, sorted_df, exit_code, period_col, period_data,
                   ioVars, trainVars>>

(***************************************************************************)
(* scripts/run_preprocessing.py: main()                                    *)
(***************************************************************************)
ExitSuccess == 0
ExitFailure == 1
\* default of process_files(min_data_points)
DefaultMinDataPoints == 8

\* main up to the call of preprocess_data
MainStart ==
    /\ pc = "main"
    /\ IF raw_exists
       THEN /\ pc' = "load"
            /\ log' = log \o <<LogRec("info", "starting", 0),
                               LogRec("info", "processing_raw_data", 0)>>
            /\ UNCHANGED exit_code
       ELSE /\ pc' = "exit"
            /\ log' = log \o <<LogRec("info", "starting", 0),
                               LogRec("error", "raw_data_file_not_found", 0)>>
            /\ exit_code' = ExitFailure
    /\ UNCHANGED <<raw_exists, columns, raw_rows, df, processed_dir, split_dir,
                   csv_files, min_data_points, sorted_df, period_col, period_data,
                   ioVars, trainVars>>

\* main calls create_rolling_splits, which calls process_files()
CreateRollingSplits ==
    /\ pc = "create_rolling_splits"
    /\ log' = Append(log, LogRec("info", "creating_rolling_splits", 0))
    /\ min_data_points' = DefaultMinDataPoints
    /\ pc' = "process_files"
    /\ UNCHANGED <<raw_exists, columns, raw_rows, df, processed_dir, split_dir,
                   csv_files, sorted_df, exit_code, period_col, period_data,
                   ioVars, trainVars>>

\* process_files has returned: main returns 0
MainReturn ==
    /\ pc = "splits_done"
    /\ log' = Append(log, LogRec("info", "completed", 0))
    /\ exit_code' = ExitSuccess
    /\ pc' = "exit"
    /\ UNCHANGED <<raw_exists, columns, raw_rows, df, processed_dir, split_dir,
                   csv_files, min_data_points, sorted_df, period_col, period_data,
                   ioVars, trainVars>>

\* except Exception: main returns 1
MainExcept ==
    /\ pc = "main_except"
    /\ log' = Append(log, LogRec("error", "error_during_preprocessing", 0))
    /\ exit_code' = ExitFailure
    /\ pc' = "exit"
    /\ UNCHANGED <<raw_exists, columns, raw_rows, df, processed_dir, split_dir,
                   csv_files, min_data_points, sorted_df, period_col, period_data,
                   ioVars, trainVars>>

(***************************************************************************)
(* The raw CSV files main is run on.                                       *)
(***************************************************************************)
PartnerIds == {"P1", "P2"}
\* period cells of the raw file: two that parse to a type and a date, one
\* that is no JSON, one whose date is no date, one without the type key
RawPeriods ==
    { StrCell(WellFormedPeriod(SQ, "S", <<"M">>, "S", <<DateString(1)>>)),
      StrCell(WellFormedPeriod(SQ, "S", <<"Q">>, "S", <<DateString(2)>>)),
      StrCell(<<"not json">>),
      StrCell(WellFormedPeriod(SQ, "S", <<"M">>, "S", <<"soon">>)),
      StrCell(<<"{">> \o Member(SQ, "start_date", Wrapper(SQ, "S", <<DateString(2)>>))
                      \o <<"}">>) }
FreeRows == [partner_id : PartnerIds, period : RawPeriods]
\* further rows of a monthly series of partner P1, one per date
BulkSizes == {0, 3, 8}
BulkRows(b) ==
    [i \in 1..b |->
        [partner_id |-> "P1",
         period |-> StrCell(WellFormedPeriod(SQ, "S", <<"M">>, "S", <<DateString(i)>>))]]
\* the rows of the file: value numbers the rows, every column of the header
\* has a cell
RawTable(base, cols) ==
    [i \in 1..Len(base) |->
        [c \in cols |->
            CASE c = "partner_id"  -> base[i].partner_id
              [] c = "period"      -> base[i].period
              [] c = "report_type" -> "revenue"
              [] c = "value"       -> 100 + i
              [] OTHER             -> "x"]]
\* headers: the four columns of the export, with a further column, and with
\* one of the four missing
ExportColumns == {"partner_id", "period", "report_type", "value"}
Headers ==
    {ExportColumns, ExportColumns \cup {"currency"}}
       \cup {ExportColumns \ {c} : c \in ExportColumns}

Init ==
    /\ pc = "main"
    /\ raw_exists \in BOOLEAN
    /\ IF raw_exists
       THEN \E n \in 0..MaxRaw, b \in BulkSizes, cols \in Headers :
               \E free \in [1..n -> FreeRows] :
                  /\ columns = cols
                  /\ raw_rows = RawTable(free \o BulkRows(b), cols)
       ELSE columns = {} /\ raw_rows = <<>>
    /\ df = NoFrame
    /\ processed_dir = EmptyDir
    /\ split_dir = EmptyDir
    /\ csv_files = {}
    /\ min_data_points = DefaultMinDataPoints
    /\ sorted_df = EmptyDir
    /\ log = <<>>
    /\ exit_code = None
    /\ period_col = <<>>
    /\ period_data = <<>>
    /\ NoIoErrors
    /\ FirstRun
    /\ NoTrainer

Next ==
    \/ MainStart
    \/ LoadAndValidateData
    \/ ProcessData
    \/ SplitAndSave
    \/ CreateRollingSplits
    \/ ProcessFilesGlob
    \/ \E f \in csv_files : ProcessSingleFile(f)
    \/ ProcessFilesReturn
    \/ MainReturn
    \/ MainExcept

Spec == Init /\ [][Next]_vars

(***************************************************************************)
(* main() on raw files whose keys contain the separator of the file name,  *)
(* with paths that cannot be written or read.                              *)
(***************************************************************************)
\* rows of partner P1 and of partner P1_B, with period types M and B_M
SeparatorRows ==
    { [partner_id |-> "P1",
       period |-> StrCell(WellFormedPeriod(SQ, "S", <<"B_M">>, "S", <<DateString(1)>>))],
      [partner_id |-> "P1_B",
       period |-> StrCell(WellFormedPeriod(SQ, "S", <<"M">>, "S", <<DateString(2)>>))],
      [partner_id |-> "P1",
       period |-> StrCell(WellFormedPeriod(SQ, "S", <<"M">>, "S", <<DateString(3)>>))],
      [partner_id |-> "P2",
       period |-> StrCell(WellFormedPeriod(SQ, "S", <<"M">>, "S", <<DateString(1)>>))] }
\* the series of P1 that is long enough to be split, or none
SeriesSizes == {0, 8}
\* the paths on which to_csv raises, the files on which read_csv raises
WriteErrors ==
    { {}, {ProcessedPath("P1_M")}, {ProcessedPath("P2_M")},
      {SplitPath(TrainName("P1_M"))}, {SplitPath(InitialTestName("P1_M"))},
      {SplitPath(FinalTestName("P1_M"))} }
ReadErrors == { {}, {"P1_M"} }

InitFiles ==
    /\ pc = "main"
    /\ raw_exists = TRUE
    /\ columns = ExportColumns
    /\ \E n \in 0..MaxRaw, b \in SeriesSizes :
          \E free \in [1..n -> SeparatorRows] :
             raw_rows = RawTable(free \o BulkRows(b), ExportColumns)
    /\ df = NoFrame
    /\ processed_dir = EmptyDir
    /\ split_dir = EmptyDir
    /\ csv_files = {}
    /\ min_data_points = DefaultMinDataPoints
    /\ sorted_df = EmptyDir
    /\ log = <<>>
    /\ exit_code = None
    /\ period_col = <<>>
    /\ period_data = <<>>
    /\ unwritable \in WriteErrors
    /\ unreadable \in ReadErrors
    /\ FirstRun
    /\ NoTrainer

SpecFiles == InitFiles /\ [][Next]_vars

(***************************************************************************)
(* src/models/sagemaker_trainer.py: SageMakerTrainer.train_model with      *)
(* get_best_instance, create_automl_job, monitor_job, get_best_candidate,  *)
(* and the AutoML job inside SageMaker.                                    *)
(***************************************************************************)
\* keys of settings.EP_INSTANCE_QUOTA_CODE_MAP, in order
InstanceTypes == <<"ml.m5.4xlarge", "ml.m5.xlarge">>
\* get_best_instance: the first instance type check_quota accepts, or ""
GetBestInstance ==
    LET available_instances == SelectSeq(InstanceTypes, LAMBDA t : t \in quota)
    IN IF available_instances # <<>> THEN available_instances[1] ELSE ""

\* the statuses on which the loop of monitor_job breaks
BreakStatuses_NoStopped == {"Failed", "Completed"}
BreakStatuses == {"Failed", "Completed", "Stopped"}
\* the check of train_model on what monitor_job returned
JobCompleted_NotFailed(response) == response.AutoMLJobStatus # "Failed"
JobCompleted(response) == response.AutoMLJobStatus = "Completed"

\* AutoMLJobStatus of a job in SageMaker: a job in progress completes, fails
\* or is being stopped; a job being stopped ends stopped; Completed, Failed
\* and Stopped are final.
NextJobStatuses(status) ==
    CASE status = "InProgress" -> {"Completed", "Failed", "Stopping"}
      [] status = "Stopping"   -> {"Stopped"}
      [] OTHER                 -> {}

\* the last MaxPolls entries of the record of polls
Recorded(statuses) ==
    SubSeq(statuses, Max2(Len(statuses) - MaxPolls, 0) + 1, Len(statuses))

\* train_model: "Check instance availability"
CheckInstanceAvailability ==
    /\ pc = "train_model"
    /\ IF GetBestInstance = ""
       THEN pc' = "raised" /\ result' = "RuntimeError"
       ELSE pc' = "create_automl_job" /\ UNCHANGED result
    /\ UNCHANGED <<dataVars, ioVars, quota, job, polled, job_response, calls>>

\* create_automl_job: create_auto_ml_job_v2 starts the job, or raises
CreateAutoMLJob ==
    /\ pc = "create_automl_job"
    /\ calls' = calls \cup {"create_automl_job"}
    /\ \/ job' = "InProgress" /\ pc' = "monitor_job" /\ UNCHANGED result
       \/ pc' = "raised" /\ result' = "ClientError" /\ UNCHANGED job
    /\ UNCHANGED <<dataVars, ioVars, quota, polled, job_response>>

\* the job moves on inside SageMaker
JobProgress ==
    /\ job # None
    /\ job' \in NextJobStatuses(job)
    /\ UNCHANGED <<pc, dataVars, ioVars, quota, polled, job_response, calls, result>>

\* monitor_job, one turn of the loop: describe_auto_ml_job_v2 returns; break
\* on a final status, else sleep and go round again
MonitorJobPollReturns ==
    /\ pc = "monitor_job"
    /\ calls' = calls \cup {"monitor_job"}
    /\ polled' = Recorded(Append(polled, job))
    /\ pc' = IF job \in BreakStatuses THEN "monitor_job_final" ELSE "monitor_job"
    /\ UNCHANGED <<dataVars, ioVars, quota, job, job_response, result>>
\* describe_auto_ml_job_v2 raises: the exception is logged and raised
MonitorJobPollRaises ==
    /\ pc = "monitor_job"
    /\ calls' = calls \cup {"monitor_job"}
    /\ pc' = "raised"
    /\ result' = "ClientError"
    /\ UNCHANGED <<dataVars, ioVars, quota, job, job_response, polled>>

\* monitor_job after the loop: describe the job once more and return that
\* description
MonitorJobReturns ==
    /\ pc = "monitor_job_final"
    /\ job_response' = [AutoMLJobStatus |-> job]
    /\ pc' = "check_status"
    /\ UNCHANGED <<dataVars, ioVars, quota, job, polled, calls, result>>
\* the describe call after the loop raises
MonitorJobFinalRaises ==
    /\ pc = "monitor_job_final"
    /\ pc' = "raised"
    /\ result' = "ClientError"
    /\ UNCHANGED <<dataVars, ioVars, quota, job, polled, calls, job_response>>

\* train_model: "Check if job completed successfully"
CheckJobStatus ==
    /\ pc = "check_status"
    /\ IF JobCompleted(job_response)
       THEN pc' = "get_best_candidate" /\ UNCHANGED result
       ELSE pc' = "raised" /\ result' = "RuntimeError"
    /\ UNCHANGED <<dataVars, ioVars, quota, job, polled, job_response, calls>>

\* get_best_candidate and the return of train_model; get_best_candidate
\* raises when a call fails or no candidate has completed
GetBestCandidate ==
    /\ pc = "get_best_candidate"
    /\ calls' = calls \cup {"get_best_candidate"}
    /\ \/ pc' = "returned" /\ result' = "best_candidate"
       \/ pc' = "raised" /\ result' \in {"ClientError", "ValueError"}
    /\ UNCHANGED <<dataVars, ioVars, quota, job, polled, job_response>>

InitTrain ==
    /\ pc = "train_model"
    /\ raw_exists = FALSE
    /\ columns = {}
    /\ raw_rows = <<>>
    /\ df = NoFrame
    /\ processed_dir = EmptyDir
    /\ split_dir = EmptyDir
    /\ csv_files = {}
    /\ min_data_points = DefaultMinDataPoints
    /\ sorted_df = EmptyDir
    /\ log = <<>>
    /\ exit_code = None
    /\ period_col = <<>>
    /\ period_data = <<>>
    /\ NoIoErrors
    /\ FirstRun
    /\ quota \in SUBSET Range(InstanceTypes)
    /\ job = None
    /\ polled = <<>>
    /\ job_response = NoResponse
    /\ calls = {}
    /\ result = None

NextTrain ==
    \/ CheckInstanceAvailability
    \/ CreateAutoMLJob
    \/ JobProgress
    \/ MonitorJobPollReturns
    \/ MonitorJobPollRaises
    \/ MonitorJobReturns
    \/ MonitorJobFinalRaises
    \/ CheckJobStatus
    \/ GetBestCandidate

SpecTrain == InitTrain /\ [][NextTrain]_vars

\* the trainer's process keeps running, and describe calls that keep being
\* made do not all raise
SpecTrainFair ==
    /\ SpecTrain
    /\ WF_vars(MonitorJobPollReturns)
    /\ WF_vars(MonitorJobReturns)

(***************************************************************************)
(* Period parsing: properties of _parse_period over the cells that apply   *)
(* has handed to it.                                                       *)
(***************************************************************************)
Parsed == 1..Len(period_data)
ReturnedNulls(r) == r.period_type = PyNone /\ r.start_date = PyNone

\* period objects in which an entry that is present is no map
NonMapEntryObjects(q) ==
    BothKeys(q, NonMapEntries(q), DateEntries(q))
       \cup BothKeys(q, TypeEntries(q), NonMapEntries(q))
       \cup OnlyType(q, NonMapEntries(q))
       \cup OnlyStartDate(q, NonMapEntries(q))
       \cup ExtraKey(q, NonMapEntries(q))

\* malformed by construction: damaged strings (unbalanced quotes or braces,
\* a value that is a list), strings that are no JSON or no map, and period
\* objects with an entry that is no map
MalformedStrings ==
    UNION {Damaged(s) : s \in WellFormedPeriods}
       \cup OtherStrings
       \cup UNION {NonMapEntryObjects(q) : q \in Quotes}

C7_PairAllOrNothing ==
    \A i \in Parsed :
        (period_data[i].period_type = PyNone) <=> (period_data[i].start_date = PyNone)

\* quote characters in a payload
HasQuote(toks) == \E i \in 1..Len(toks) : toks[i] \in Quotes

LogHas(msg) == \E i \in 1..Len(log) : log[i].msg = msg

MissingRequiredColumn ==
    raw_exists /\ \E c \in ExportColumns : c \notin columns

\* C9: when one of the four required columns is absent, loading fails as a
\* whole: the error reaches main, no row is normalized, no group file is
\* written, the rolling-split stage is not run and main returns 1.
C9_MissingColumnRejectsWholeInput ==
    MissingRequiredColumn =>
        /\ pc \in {"main", "load", "main_except", "exit"}
        /\ df = NoFrame
        /\ processed_dir = EmptyDir
        /\ split_dir = EmptyDir
        /\ sorted_df = EmptyDir
        /\ ~LogHas("creating_rolling_splits")
        /\ pc \in {"main_except", "exit"} => LogHas("error_loading_data")
        /\ pc = "exit" => /\ exit_code = 1
                          /\ LogHas("error_during_preprocessing")

C9_Witness ==
    /\ MissingRequiredColumn
    /\ "report_type" \notin columns
    /\ Len(raw_rows) > 0
    /\ pc = "exit"
    /\ exit_code = 1

\* the timestamp of a raw row after parsing and date coercion
Timestamp(row) == ToDatetime(ParsePeriod(row["period"]).start_date)
\* the drop count logged by the null-date filter (nothing is logged for 0)
LoggedDropCount ==
    IF LogHas("removing_rows_invalid_dates")
    THEN (CHOOSE l \in Range(log) : l.msg = "removing_rows_invalid_dates").n
    ELSE 0
\* C10: when _process_data has completed, the rows it kept are exactly the
\* raw rows whose timestamp is not null, in order, with partner_id and value
\* unchanged; rows kept plus the logged drop count is the number of input
\* rows.
C10_DropsExactlyNullTimestampRows ==
    pc = "split_and_save" =>
        LET n == Len(raw_rows)
            stamps == [i \in 1..n |-> Timestamp(raw_rows[i])]
            survivors == SelectSeq([i \in 1..n |-> i], LAMBDA i : stamps[i] # NaT)
        IN /\ Len(df.rows) + LoggedDropCount = n
           /\ Len(df.rows) = Len(survivors)
           /\ \A k \in 1..Len(df.rows) :
                 /\ df.rows[k]["start_date"] # NaT
                 /\ df.rows[k]["start_date"] = stamps[survivors[k]]
                 /\ df.rows[k]["partner_id"] = raw_rows[survivors[k]]["partner_id"]
                 /\ df.rows[k]["revenue"] = raw_rows[survivors[k]]["value"]

C10_Witness ==
    /\ pc = "split_and_save"
    /\ Len(raw_rows) = 5
    /\ \E i \in 1..5 :
          /\ raw_rows[i]["period"] = StrCell(<<"not json">>)
          /\ \A j \in (1..5) \ {i} : Timestamp(raw_rows[j]) # NaT
    /\ Len(df.rows) = 4
    /\ LoggedDropCount = 1

(***************************************************************************)
(* Rolling split: properties of the artifacts written by                   *)
(* _process_single_file, stated over the files it has visited.             *)
(***************************************************************************)
\* files _process_single_file has visited in this run
Visited == DOMAIN sorted_df
\* visited files that passed the min_data_points check
SplitFiles == {f \in Visited : Len(sorted_df[f]) >= min_data_points}
Written(name) == name \in DOMAIN split_dir
WroteAll(f) == /\ Written(TrainName(f))
               /\ Written(InitialTestName(f))
               /\ Written(FinalTestName(f))
WroteNone(f) == /\ ~Written(TrainName(f))
                /\ ~Written(InitialTestName(f))
                /\ ~Written(FinalTestName(f))
IsSuffix(t, s) == Len(t) <= Len(s) /\ t = SubSeq(s, Len(s) - Len(t) + 1, Len(s))
IsPrefix(t, s) == Len(t) <= Len(s) /\ t = SubSeq(s, 1, Len(t))

\* C1 (as stated): for every split series of n >= 8 rows, final_test is the
\* last 4 rows of the sorted series (rows n-4 .. n-1) and a suffix of
\* initial_test.
C1_FinalTestIsLastFour ==
    \A f \in SplitFiles :
        Len(sorted_df[f]) >= 8 =>
            /\ WroteAll(f)
            /\ split_dir[FinalTestName(f)] = CsvRows(ILocTakeLast(sorted_df[f], 4))
            /\ IsSuffix(split_dir[FinalTestName(f)], split_dir[InitialTestName(f)])

\* C1 (amended): for every split series of n >= 8 rows, final_test is the
\* first 4 rows of initial_test, i.e. rows n-8 .. n-5 of the sorted series:
\* a prefix of initial_test that ends 4 rows before the end of the series.
C1_FinalTestIsFirstFourOfInitialTest ==
    \A f \in SplitFiles :
        LET n == Len(sorted_df[f])
        IN n >= 8 =>
            /\ WroteAll(f)
            /\ split_dir[FinalTestName(f)]
                  = CsvRows(SubSeq(sorted_df[f], n - 7, n - 4))
            /\ IsPrefix(split_dir[FinalTestName(f)], split_dir[InitialTestName(f)])
            /\ Len(split_dir[FinalTestName(f)]) = 4

C1_Witness ==
    \E f \in SplitFiles :
        /\ Len(sorted_df[f]) > 8
        /\ WroteAll(f)
        /\ split_dir[FinalTestName(f)] # CsvRows(ILocTakeLast(sorted_df[f], 4))

\* C2: for every split series of n >= 8 rows, initial_test is the last 8 rows
\* of the sorted series, train the first n-8 rows, the two share no row, and
\* train followed by initial_test is the whole sorted series.
C2_TrainAndInitialTestPartition ==
    \A f \in SplitFiles :
        LET n == Len(sorted_df[f])
        IN n >= 8 =>
            /\ WroteAll(f)
            /\ split_dir[InitialTestName(f)]
                  = CsvRows(SubSeq(sorted_df[f], n - 7, n))
            /\ split_dir[TrainName(f)] = CsvRows(SubSeq(sorted_df[f], 1, n - 8))
            /\ Range(split_dir[TrainName(f)])
                  \cap Range(split_dir[InitialTestName(f)]) = {}
            /\ split_dir[TrainName(f)] \o split_dir[InitialTestName(f)]
                  = CsvRows(sorted_df[f])

C2_Witness ==
    \E f \in SplitFiles :
        /\ Len(sorted_df[f]) = 9
        /\ WroteAll(f)
        /\ Len(split_dir[TrainName(f)]) = 1
        /\ Len(split_dir[InitialTestName(f)]) = 8

\* C3 (as stated): for any min_data_points and any split series of
\* n >= min_data_points rows, len(final_test) + 4 = len(initial_test).
C3_WidthFourForAnyThreshold ==
    \A f \in SplitFiles :
        /\ WroteAll(f)
        /\ Len(split_dir[FinalTestName(f)]) + 4 = Len(split_dir[InitialTestName(f)])

\* C3 (amended): for any min_data_points and any split series of
\* n >= min_data_points rows with n >= 4, len(final_test) + 4 =
\* len(initial_test); with n < 4 final_test is empty and initial_test has
\* the n rows.
C3_WidthFourFromFourRows ==
    \A f \in SplitFiles :
        LET n == Len(sorted_df[f])
        IN /\ WroteAll(f)
           /\ n >= 4 => Len(split_dir[FinalTestName(f)]) + 4
                           = Len(split_dir[InitialTestName(f)])
           /\ n < 4 => /\ split_dir[FinalTestName(f)] = <<>>
                       /\ Len(split_dir[InitialTestName(f)]) = n

C3_Witness ==
    \E f \in SplitFiles :
        /\ min_data_points < 8
        /\ Len(sorted_df[f]) \in 4..7
        /\ WroteAll(f)
        /\ Len(split_dir[InitialTestName(f)]) = Len(sorted_df[f])

\* C4: a file with fewer rows than min_data_points gets none of the three
\* artifacts, and process_files still visits every other file of the
\* directory: when it returns, every file was visited and every file with
\* enough rows has its three artifacts.
C4_UndersizedSkippedOthersProcessed ==
    /\ \A f \in Visited :
          Len(sorted_df[f]) < min_data_points => WroteNone(f)
    /\ pc = "splits_done" =>
          \A f \in DOMAIN processed_dir :
              /\ f \in Visited
              /\ Len(processed_dir[f]) >= min_data_points => WroteAll(f)

C4_Witness ==
    /\ pc = "splits_done"
    /\ min_data_points = 8
    /\ \E f, g \in Visited :
          /\ Len(sorted_df[f]) = 7
          /\ WroteNone(f)
          /\ Len(sorted_df[g]) >= 8
          /\ WroteAll(g)

\* C5: a series of exactly 8 rows that is split gets all three artifacts:
\* train is written with no rows, initial_test has 8 rows, final_test 4.
C5_EightRowsEmptyTrainWritten ==
    \A f \in SplitFiles :
        Len(sorted_df[f]) = 8 =>
            /\ WroteAll(f)
            /\ split_dir[TrainName(f)] = <<>>
            /\ Len(split_dir[InitialTestName(f)]) = 8
            /\ Len(split_dir[FinalTestName(f)]) = 4

C5_Witness ==
    \E f \in SplitFiles :
        /\ Len(sorted_df[f]) = 8
        /\ min_data_points = 8
        /\ Written(TrainName(f))
        /\ split_dir[TrainName(f)] = <<>>

(***************************************************************************)
(* A run of main() that is killed, and a second run of main() on the same  *)
(* raw file and the same directories.                                      *)
(***************************************************************************)
\* The process is killed inside split_and_save after some of its to_csv
\* calls have returned.
KillInSplitAndSave ==
    /\ pc = "split_and_save"
    /\ \E k \in 0..Succeed(GroupPaths(GroupByKeys), unwritable) :
          processed_dir' = WriteGroups(processed_dir, df.rows,
                                       SubSeq(GroupByKeys, 1, k))
    /\ pc' = "killed"
    /\ UNCHANGED <<raw_exists, columns, raw_rows, df, split_dir, csv_files,
                   min_data_points, sorted_df, log, exit_code, period_col,
                   period_data, ioVars, trainVars>>

\* The process is killed inside _process_single_file after k of its three
\* to_csv calls have returned.
KillInProcessSingleFile(file_path, k) ==
    /\ pc = "split_loop"
    /\ file_path \in csv_files \ unreadable
    /\ k <= Succeed(SplitPaths(file_path), unwritable)
    /\ \E d \in SortOutcomes(ReadSeries(processed_dir[file_path])) :
          /\ ~NotEnoughDataPoints(d, min_data_points)
          /\ split_dir' = WriteAll(split_dir, SubSeq(SplitWrites(file_path, d), 1, k))
          /\ quicksort' = Remember(quicksort,
                                   ReadSeries(processed_dir[file_path]), d)
    /\ pc' = "killed"
    /\ UNCHANGED <<raw_exists, columns, raw_rows, df, processed_dir, csv_files,
                   min_data_points, sorted_df, log, exit_code, period_col,
                   period_data, unwritable, unreadable, run, first_run, trainVars>>

\* The script is started again: a new process, the files as they are.
RunAgain ==
    /\ run = 1
    /\ pc \in {"exit", "killed"}
    /\ first_run' = [end |-> pc, exit_code |-> exit_code,
                     processed |-> processed_dir, split |-> split_dir]
    /\ run' = 2
    /\ pc' = "main"
    /\ df' = NoFrame
    /\ csv_files' = {}
    /\ sorted_df' = EmptyDir
    /\ log' = <<>>
    /\ exit_code' = None
    /\ UNCHANGED <<raw_exists, columns, raw_rows, processed_dir, split_dir,
                   min_data_points, period_col, period_data, unwritable,
                   unreadable, quicksort, trainVars>>

\* raw rows of the runs: a row of the long series' first date, a row of
\* another partner, a row that is dropped, a row of another period type
RerunRows ==
    { [partner_id |-> "P1",
       period |-> StrCell(WellFormedPeriod(SQ, "S", <<"M">>, "S", <<DateString(1)>>))],
      [partner_id |-> "P2",
       period |-> StrCell(WellFormedPeriod(SQ, "S", <<"M">>, "S", <<DateString(1)>>))],
      [partner_id |-> "P1", period |-> StrCell(<<"not json">>)],
      [partner_id |-> "P1",
       period |-> StrCell(WellFormedPeriod(SQ, "S", <<"Q">>, "S", <<DateString(2)>>))] }

InitRerun ==
    /\ pc = "main"
    /\ raw_exists = TRUE
    /\ columns \in {ExportColumns, ExportColumns \ {"value"}}
    /\ \E n \in 0..MaxRaw, b \in SeriesSizes :
          \E free \in [1..n -> RerunRows] :
             raw_rows = RawTable(free \o BulkRows(b), columns)
    /\ df = NoFrame
    /\ processed_dir = EmptyDir
    /\ split_dir = EmptyDir
    /\ csv_files = {}
    /\ min_data_points = DefaultMinDataPoints
    /\ sorted_df = EmptyDir
    /\ log = <<>>
    /\ exit_code = None
    /\ period_col = <<>>
    /\ period_data = <<>>
    /\ NoIoErrors
    /\ FirstRun
    /\ NoTrainer

NextRerun ==
    \/ Next
    \/ KillInSplitAndSave
    \/ \E f \in csv_files, k \in 0..3 : KillInProcessSingleFile(f, k)
    \/ RunAgain

SpecRerun == InitRerun /\ [][NextRerun]_vars

(***************************************************************************)
(* Group artifacts: what split_and_save leaves in data/processed.          *)
(***************************************************************************)
\* the (partner_id, period_type) pairs of the normalized table
KeyPairs ==
    {<<df.rows[i]["partner_id"], df.rows[i]["period_type"]>> : i \in 1..Len(df.rows)}
\* the rows of a table or of a file, identified by their revenue cell (the
\* raw files number their rows in the value column)
RowIds(rows) == {rows[i]["revenue"] : i \in 1..Len(rows)}
RowsOfGroup(key) ==
    RowIds(SelectSeq(df.rows, LAMBDA r : <<r["partner_id"], r["period_type"]>> = key))
SplitAndSaveReturned == pc = "create_rolling_splits" /\ unwritable = {}

\* C11: when split_and_save returns, data/processed holds exactly one artifact
\* per (partner_id, period_type) pair of the normalized table: as many
\* artifacts as distinct pairs, and for every pair an artifact that holds
\* exactly the rows of that pair.
C11_OneArtifactPerGroup ==
    (SplitAndSaveReturned /\ \A key \in KeyPairs : key[2] # PyNone) =>
        /\ Cardinality(DOMAIN processed_dir) = Cardinality(KeyPairs)
        /\ \A key \in KeyPairs :
              \E f \in DOMAIN processed_dir :
                 RowIds(processed_dir[f]) = RowsOfGroup(key)

\* C19: two distinct (partner_id, period_type) pairs of the normalized table
\* never have the same artifact file name.
C19_NamingInjective ==
    pc = "split_and_save" =>
        \A k1 \in GroupKeys(df.rows), k2 \in GroupKeys(df.rows) :
            k1 # k2 => GroupFileName(k1[1], k1[2]) # GroupFileName(k2[1], k2[2])

(***************************************************************************)
(* Runs of main() that are killed or repeated.                             *)
(***************************************************************************)
\* what one run of main() that nothing interrupts leaves on disk for the raw
\* file: the group files of the normalized table, and the three slices of
\* every group file that has at least DefaultMinDataPoints rows
UninterruptedProcessed == WriteGroups(EmptyDir, df.rows, GroupByKeys)
SplitArtifacts(dir, f) ==
    WriteAll(dir, SplitWrites(f, quicksort[ReadSeries(UninterruptedProcessed[f])]))
RECURSIVE SplitsOf(_, _)
SplitsOf(dir, files) ==
    IF files = {} THEN dir
    ELSE LET f == CHOOSE g \in files : TRUE
         IN SplitsOf(SplitArtifacts(dir, f), files \ {f})
UninterruptedSplit ==
    SplitsOf(EmptyDir, {f \in DOMAIN UninterruptedProcessed :
                           Len(UninterruptedProcessed[f]) >= DefaultMinDataPoints})
\* every file of dir is a file of full, with the same contents
Intact(dir, full) ==
    \A n \in DOMAIN dir : n \in DOMAIN full /\ dir[n] = full[n]
FirstRunKilled == run = 2 /\ first_run.end = "killed"
FirstRunCompleted == run = 2 /\ first_run.end = "exit"

\* C12: a run of main() that nothing interrupts leaves exactly the
\* uninterrupted outcome on disk; a run that is killed after any prefix of
\* its file writes leaves the group files it has written with their final
\* contents; and when main() is then run again on the same raw file, the
\* names and contents on disk at its end are those of an uninterrupted run.
C12_RerunAfterKillEqualsUninterruptedRun ==
    /\ (pc = "exit" /\ exit_code = ExitSuccess /\ (run = 1 \/ FirstRunKilled)) =>
          /\ processed_dir = UninterruptedProcessed
          /\ split_dir = UninterruptedSplit
    /\ (pc = "killed" /\ run = 1) =>
          Intact(processed_dir, UninterruptedProcessed)
    /\ (FirstRunKilled /\ pc = "main") =>
          /\ processed_dir = first_run.processed
          /\ split_dir = first_run.split

C12_Witness ==
    /\ FirstRunKilled
    /\ pc = "exit"
    /\ exit_code = ExitSuccess
    /\ Cardinality(DOMAIN first_run.split) = 2
    /\ Cardinality(DOMAIN split_dir) = 3
    /\ Cardinality(DOMAIN processed_dir) = 3

\* C13: when main() has run to its end twice in a row on the same raw file,
\* the files on disk after the second run are the files on disk after the
\* first run, with the same contents, and the second run ends as the first.
C13_SecondRunLeavesSameFiles ==
    (FirstRunCompleted /\ pc = "exit") =>
        /\ processed_dir = first_run.processed
        /\ split_dir = first_run.split
        /\ exit_code = first_run.exit_code

\* a second run over a group of nine rows, two of them of the same date
C13_Witness ==
    /\ FirstRunCompleted
    /\ pc = "exit"
    /\ exit_code = ExitSuccess
    /\ "P1_M_train" \in DOMAIN split_dir
    /\ Len(split_dir["P1_M_train"]) = 1
    /\ Cardinality(DOMAIN processed_dir) = 2

(***************************************************************************)
(* The order of the rows before slicing.                                   *)
(***************************************************************************)
\* C14: the frame _process_single_file slices is in ascending order of
\* start_date, and rows of equal start_date are in the order they have in
\* the file (the series files number their rows in the revenue column).
C14_SortAscendingStable ==
    \A f \in DOMAIN sorted_df :
        \A i \in 1..Len(sorted_df[f]), j \in 1..Len(sorted_df[f]) :
            (i < j /\ sorted_df[f][i].start_date # NaT
                   /\ sorted_df[f][j].start_date # NaT) =>
                /\ sorted_df[f][i].start_date <= sorted_df[f][j].start_date
                /\ sorted_df[f][i].start_date = sorted_df[f][j].start_date
                      => sorted_df[f][i].revenue < sorted_df[f][j].revenue

(***************************************************************************)
(* The columns of the artifacts.                                           *)
(***************************************************************************)
\* the column sets of the rows stored in the files of a directory
ColumnSets(dir) ==
    UNION {{DOMAIN dir[f][i] : i \in 1..Len(dir[f])} : f \in DOMAIN dir}

\* C15 (as stated): every group artifact and every split artifact has
\* exactly the columns partner_id, period_type, start_date and revenue.
C15_FourColumns ==
    \A cols \in ColumnSets(processed_dir) \cup ColumnSets(split_dir) :
        cols = {"partner_id", "period_type", "start_date", "revenue"}

\* C15 (amended): every group artifact and every split artifact has exactly
\* the columns partner_id, report_type, revenue, period_type and start_date:
\* the raw period column and every further column of the raw file are
\* absent, report_type is kept.
C15_FourColumnsAndReportType ==
    \A cols \in ColumnSets(processed_dir) \cup ColumnSets(split_dir) :
        cols = {"partner_id", "report_type", "revenue", "period_type", "start_date"}

\* a raw file with a further column has been grouped and split
C15_Witness ==
    /\ pc = "exit"
    /\ exit_code = ExitSuccess
    /\ "currency" \in columns
    /\ ColumnSets(processed_dir) # {}
    /\ ColumnSets(split_dir) # {}

(***************************************************************************)
(* I/O errors: paths that cannot be written, files that cannot be read.    *)
(***************************************************************************)
\* the group file of a key can be written; a group file can be read and its
\* three slices can be written
GroupWritable(key) == ProcessedPath(GroupFileName(key[1], key[2])) \notin unwritable
Splittable(f) ==
    /\ f \notin unreadable
    /\ \A i \in 1..3 : SplitPaths(f)[i] \notin unwritable
\* _process_single_file has sorted the file and then skipped or sliced it
Handled(f) == f \in DOMAIN sorted_df

\* C16: when main() has ended, every group whose own file can be written has
\* been written by split_and_save, and every group file that can itself be
\* read and split has been handled by process_files, whatever I/O error
\* another group's file has met.
C16_IoErrorFatalForOneFileOnly ==
    pc = "exit" =>
        /\ \A key \in GroupKeys(df.rows) :
              GroupWritable(key) =>
                 GroupFileName(key[1], key[2]) \in DOMAIN processed_dir
        /\ \A key \in GroupKeys(df.rows) :
              (GroupWritable(key) /\ Splittable(GroupFileName(key[1], key[2]))) =>
                 Handled(GroupFileName(key[1], key[2]))

\* the split artifacts of a group file that are on disk (data/split_data is
\* empty when the run starts)
SplitArtifactsOf(f) ==
    {n \in {TrainName(f), InitialTestName(f), FinalTestName(f)} :
        n \in DOMAIN split_dir}

\* C20: after process_files has returned, every group file has all three of
\* its split artifacts written or none of them.
C20_SplitArtifactsAllOrNothing ==
    pc \in {"splits_done", "exit"} =>
        \A f \in DOMAIN processed_dir :
            Cardinality(SplitArtifactsOf(f)) \in {0, 3}

(***************************************************************************)
(* The trainer.                                                            *)
(***************************************************************************)
FinalStatuses == {"Failed", "Completed", "Stopped"}
MonitorJobReturned == job_response # NoResponse
LastPolled == polled[Len(polled)]

\* C17: train_model returns a best candidate only when the job description
\* monitor_job returned has status Completed; without an instance type of
\* sufficient quota it raises RuntimeError and no job is ever created; when
\* the job ended Failed or Stopped it raises RuntimeError and
\* get_best_candidate is never called.
C17_BestCandidateOnlyWhenCompleted ==
    /\ result = "best_candidate" =>
          /\ job_response.AutoMLJobStatus = "Completed"
          /\ job = "Completed"
    /\ quota = {} =>
          /\ job = None
          /\ "create_automl_job" \notin calls
          /\ pc \in {"train_model", "raised"}
          /\ pc = "raised" => result = "RuntimeError"
    /\ job_response.AutoMLJobStatus \in {"Failed", "Stopped"} =>
          /\ "get_best_candidate" \notin calls
          /\ pc \in {"check_status", "raised"}
          /\ pc = "raised" => result = "RuntimeError"

C17_Witness ==
    /\ pc = "raised"
    /\ result = "RuntimeError"
    /\ job_response.AutoMLJobStatus = "Stopped"
    /\ "create_automl_job" \in calls

\* C18: monitor_job returns only after a poll of its loop has read Failed,
\* Completed or Stopped, and the description it returns has one of these
\* statuses; while the job has none of them the loop is left only by an
\* exception; and once the job has one of them, monitor_job returns unless a
\* describe call raises.
C18_MonitorsUntilFinalStatus ==
    /\ [](MonitorJobReturned =>
             /\ polled # <<>>
             /\ LastPolled \in FinalStatuses
             /\ job_response.AutoMLJobStatus \in FinalStatuses)
    /\ [][(pc = "monitor_job" /\ job \notin FinalStatuses)
             => pc' \in {"monitor_job", "raised"}]_vars
    /\ (pc = "monitor_job" /\ job \in FinalStatuses)
          ~> (MonitorJobReturned \/ result = "ClientError")

\* three polls: in progress, being stopped, stopped
C18_Witness ==
    /\ MonitorJobReturned
    /\ polled = <<"InProgress", "Stopping", "Stopped">>
    /\ job_response.AutoMLJobStatus = "Stopped"

(***************************************************************************)
(* Rows between normalization and grouping.                                *)
(***************************************************************************)
\* the files of data/processed that hold the row of a given revenue cell
ArtifactsHolding(id) ==
    {f \in DOMAIN processed_dir : id \in RowIds(processed_dir[f])}
RECURSIVE TotalRows(_, _)
TotalRows(dir, files) ==
    IF files = {} THEN 0
    ELSE LET f == CHOOSE g \in files : TRUE
         IN Len(dir[f]) + TotalRows(dir, files \ {f})

\* C21: when split_and_save has returned, every row of the normalized table,
\* a row whose period_type is None included, is in exactly one group
\* artifact, and the artifacts hold as many rows as the normalized table.
C21_NoRowLostInGrouping ==
    pc = "create_rolling_splits" =>
        /\ \A id \in RowIds(df.rows) : Cardinality(ArtifactsHolding(id)) = 1
        /\ TotalRows(processed_dir, DOMAIN processed_dir) = Len(df.rows)

====
